---- MODULE Spec2Model ----
(***************************************************************************)
(* Model of apps/redaction/views.py: the redaction store of a document,    *)
(* the create / delete request handlers and the redacted-PDF export.       *)
(*                                                                         *)
(* JSON values are tagged records (t = "null" | "num" | "str" | "list" |   *)
(* "dict"); JSON null is Python's None.  A Python dict is a function from  *)
(* its keys to its values.  Python floats are modelled by integers: every  *)
(* coordinate the model draws is integer valued, so float arithmetic on    *)
(* them is exact.  Raw rectangles are JSON objects and "selections", when  *)
(* present, is a JSON list of such objects.                                *)
(***************************************************************************)
EXTENDS Integers, Sequences, FiniteSets, TLC

VARIABLES store, nextId, request, response, before

vars == <<store, nextId, request, response, before>>

\* ------------------------------------------------------------------ bounds
\* Redactions ever created in one run of the lifecycle specification.
MaxRedactions == 2
\* Longest "selections" list the entity-builder specification draws.
MaxSel == 3

\* ------------------------------------------------------------- JSON values
JNull == [t |-> "null"]
JNum(n) == [t |-> "num", v |-> n]
JStr(s) == [t |-> "str", v |-> s]
JList(s) == [t |-> "list", v |-> s]
JDict(f) == [t |-> "dict", v |-> f]

\* dict.get(key): the value, None when the key is absent.
Get(d, key) == IF key \in DOMAIN d THEN d[key] ELSE JNull

\* The strings of the model that Python's float() parses, with their value.
NumericStrings == ("10" :> 10) @@ ("30" :> 30) @@ ("40" :> 40) @@ ("5" :> 5)

\* float(value): numbers and numeric strings convert; None raises TypeError,
\* any other string ValueError (both caught together at line 80).
float(value) ==
  CASE value.t = "num" -> [ok |-> TRUE, v |-> value.v]
    [] value.t = "str" /\ value.v \in DOMAIN NumericStrings ->
         [ok |-> TRUE, v |-> NumericStrings[value.v]]
    [] OTHER -> [ok |-> FALSE]

\* Truth value of a Python tuple: true unless it is empty.
TupleIsTruthy(tuple) == Len(tuple) > 0

CoordKeys == <<"x", "y", "width", "height">>
required_fields == {"x", "y", "width", "height"}

\* ------------------------------------------------------------ the documents
\* The pre-seeded documents: document d has the pages 1..Len(MediaBoxHeight[d])
\* and MediaBoxHeight[d][p] is the media-box height of its page p.
MediaBoxHeight == <<(<<792, 600>>), (<<500>>)>>
Documents == DOMAIN MediaBoxHeight
NumPages(document) == Len(MediaBoxHeight[document])

\* --------------------------------------------------------- helper functions
validate_coordinates(coordinates) ==
  IF coordinates.t # "dict" THEN <<FALSE, "Invalid coordinates format">>
  ELSE IF ~(required_fields \subseteq DOMAIN coordinates.v)
       THEN <<FALSE, "Missing coordinate fields">>
       ELSE <<TRUE, "None">>

\* The conversion reading each value as coordinates.get(key, 0): a missing key
\* counts as 0 instead of raising.
convert_to_float_coords_default_zero(coordinates, page) ==
  LET value(k) == IF k \in DOMAIN coordinates THEN coordinates[k] ELSE JNum(0)
      bad == {i \in DOMAIN CoordKeys : ~float(value(CoordKeys[i])).ok}
      first == CHOOSE i \in bad : \A j \in bad : i <= j
      keys == IF page.t # "null" THEN required_fields \cup {"page"} ELSE required_fields
  IN  IF bad # {}
      THEN [raised |-> "ValueError", key |-> CoordKeys[first],
            value |-> value(CoordKeys[first])]
      ELSE [raised |-> "none",
            value |-> [k \in keys |-> IF k = "page" THEN page ELSE float(value(k)).v]]

\* convert_to_float_coords(coordinates, page): the float dict, or the
\* ValueError raised for the first key (in x, y, width, height order) whose
\* value float() rejects.
convert_to_float_coords(coordinates, page) ==
  LET bad == {i \in DOMAIN CoordKeys : ~float(Get(coordinates, CoordKeys[i])).ok}
      first == CHOOSE i \in bad : \A j \in bad : i <= j
      keys == IF page.t # "null" THEN required_fields \cup {"page"} ELSE required_fields
  IN  IF bad # {}
      THEN [raised |-> "ValueError", key |-> CoordKeys[first],
            value |-> Get(coordinates, CoordKeys[first])]
      ELSE [raised |-> "none",
            value |-> [k \in keys |-> IF k = "page" THEN page
                                       ELSE float(coordinates[k]).v]]

extract_pdf_coords_no_height(coords, page_height) ==
  LET num(key) == IF key \in DOMAIN coords THEN coords[key] ELSE 0
  IN  <<num("x"), page_height - num("y"), num("width"), num("height")>>

\* extract_pdf_coords(coords, page_height): (x, y, width, height) in PDF space;
\* a key the dict lacks counts as 0.
extract_pdf_coords(coords, page_height) ==
  LET num(key) == IF key \in DOMAIN coords THEN coords[key] ELSE 0
  IN  <<num("x"), page_height - num("y") - num("height"), num("width"), num("height")>>

\* add_pdf_redaction_annotation: the page's /Annots with one more /Square
\* annotation, black, borderless, with /Rect [x, y, x + width, y + height].
add_pdf_redaction_annotation(annots, x, y, width, height) ==
  Append(annots, [Subtype |-> "/Square",
                  Rect |-> <<x, y, x + width, y + height>>,
                  C |-> <<0, 0, 0>>, IC |-> <<0, 0, 0>>, BS |-> [W |-> 0]])

\* ------------------------------------------------------------ the responses
Notification(notification_type, notification_title, message) ==
  [kind |-> "DatastarResponse", status |-> 200,
   notification_type |-> notification_type,
   notification_title |-> notification_title, message |-> message]

JsonResponse(error, status) == [kind |-> "JsonResponse", status |-> status, error |-> error]

\* get_object_or_404(Document, pk = document_id) found no document.
Http404 == [kind |-> "Http404", status |-> 404]

\* ------------------------------------------------------- the redaction store
\* Redaction.objects.create: a new row with the next primary key.
Redaction_objects_create(objects, pk, document, redaction_type, coordinates) ==
  Append(objects, [id |-> pk, document |-> document,
                   redaction_type |-> redaction_type, coordinates |-> coordinates])

\* document.redactions: the rows of one document, in creation order.
document_redactions(objects, document) ==
  SelectSeq(objects, LAMBDA r : r.document = document)

\* The float boxes of the selections that convert, in the order supplied
\* (the loop of lines 236-242: a ValueError skips the selection).
RECURSIVE float_boxes(_)
float_boxes(selections) ==
  IF selections = <<>> THEN <<>>
  ELSE LET box_coords == convert_to_float_coords(Head(selections), JNull)
       IN  (IF box_coords.raised = "none" THEN <<box_coords.value>> ELSE <<>>)
             \o float_boxes(Tail(selections))

\* The same loop without the try/except: one selection that does not convert
\* leaves no box at all.
RECURSIVE float_boxes_strict(_)
float_boxes_strict(selections) ==
  IF selections = <<>> THEN <<>>
  ELSE LET box_coords == convert_to_float_coords(Head(selections), JNull)
       IN  IF box_coords.raised = "none"
           THEN <<box_coords.value>> \o float_boxes_strict(Tail(selections))
           ELSE <<>>

create_multi_box_redaction_strict(objects, pk, document, redaction_type, page, selections) ==
  Redaction_objects_create(objects, pk, document, redaction_type,
                           [page |-> page, boxes |-> float_boxes_strict(selections)])

\* create_multi_box_redaction: the store with the new {page, boxes} redaction.
create_multi_box_redaction(objects, pk, document, redaction_type, page, selections) ==
  Redaction_objects_create(objects, pk, document, redaction_type,
                           [page |-> page, boxes |-> float_boxes(selections)])

create_single_box_redaction_as_boxes(objects, pk, document, redaction_type, coordinates) ==
  LET float_coords == convert_to_float_coords(coordinates, Get(coordinates, "page"))
  IN  IF float_coords.raised # "none" THEN float_coords
      ELSE [raised |-> "none",
            objects |-> Redaction_objects_create(objects, pk, document, redaction_type,
               [page |-> Get(coordinates, "page"),
                boxes |-> <<[k \in required_fields |-> float_coords.value[k]]>>])]

\* create_single_box_redaction: the ValueError of the conversion, or the store
\* with the new flat redaction.
create_single_box_redaction(objects, pk, document, redaction_type, coordinates) ==
  LET float_coords == convert_to_float_coords(coordinates, Get(coordinates, "page"))
  IN  IF float_coords.raised # "none" THEN float_coords
      ELSE [raised |-> "none",
            objects |-> Redaction_objects_create(objects, pk, document, redaction_type,
                                                 float_coords.value)]

\* build_redaction_response: the patches of a created redaction, or the
\* KeyError of redaction.coordinates["page"] (lines 169, 178).
build_redaction_response(objects, redaction, is_multi_box) ==
  LET coordinates == redaction.coordinates
      redactions_count == Len(document_redactions(objects, redaction.document))
  IN  IF is_multi_box /\ "boxes" \in DOMAIN coordinates
      THEN [raised |-> "none", redactions_count |-> redactions_count,
            overlays |-> [i \in DOMAIN coordinates.boxes |->
                            [redaction_id |-> redaction.id, box_index |-> i - 1,
                             page |-> coordinates.page]]]
      ELSE IF "page" \notin DOMAIN coordinates
           THEN [raised |-> "KeyError"]
           ELSE [raised |-> "none", redactions_count |-> redactions_count,
                 overlays |-> <<[redaction_id |-> redaction.id,
                                 page |-> coordinates.page]>>]

\* ----------------------------------------------------------------- the views
\* redaction_create, for an existing document: the response and the store it
\* leaves.  body.json says whether json.loads accepts the request body; data
\* is the decoded object.
redaction_create(objects, pk, document, body) ==
  IF ~body.json
  THEN [response |-> Notification("error", "JSON Decoder Error", "Invalid JSON."),
        objects |-> objects]
  ELSE
  LET data == body.data
      redaction_type == Get(data, "type")
      coordinates == Get(data, "coordinates")
      generic == Notification("error", "Something went wrong!", "Redaction was not created.")
      created(objs, is_multi_box) ==
        LET built == build_redaction_response(objs, objs[Len(objs)], is_multi_box)
        IN  IF built.raised # "none"
            THEN [response |-> generic, objects |-> objs]
            ELSE [response |->
                    Notification("success", "Redaction created!",
                                 "Redaction created successfully.")
                      @@ [patches |-> built],
                  objects |-> objs]
  IN
  IF redaction_type \notin {JStr("text"), JStr("area")}
  THEN [response |-> Notification("error", "Invalid", "Invalid redaction type"),
        objects |-> objects]
  ELSE
  LET selections == IF coordinates.t = "dict" /\ redaction_type = JStr("text")
                    THEN Get(coordinates.v, "selections") ELSE JNull
      is_multi_box == selections.t = "list" /\ Len(selections.v) > 1
  IN
  IF is_multi_box
  THEN created(create_multi_box_redaction(objects, pk, document, redaction_type.v,
                                          Get(coordinates.v, "page"), selections.v),
               TRUE)
  ELSE
  LET single_coords ==
        IF selections.t = "list" /\ Len(selections.v) = 1
        THEN JDict([k \in DOMAIN selections.v[1] \cup {"page"} |->
                      IF k = "page" THEN Get(coordinates.v, "page")
                      ELSE selections.v[1][k]])
        ELSE coordinates
      is_valid == validate_coordinates(single_coords)
  IN
  IF ~TupleIsTruthy(is_valid)
  THEN [response |-> Notification("error", "Invalid", "Invalid coordinates"),
        objects |-> objects]
  ELSE IF single_coords.t # "dict"
  THEN \* "page" not in None: TypeError, caught at line 442
       [response |-> generic, objects |-> objects]
  ELSE IF "page" \notin DOMAIN single_coords.v
  THEN [response |-> Notification("error", "No page field",
                                  "Missing page field in coordinates."),
        objects |-> objects]
  ELSE
  LET single == create_single_box_redaction(objects, pk, document, redaction_type.v,
                                            single_coords.v)
  IN  IF single.raised # "none"
      THEN [response |-> JsonResponse([text |-> "Invalid coordinate value",
                                       key |-> single.key, value |-> single.value], 400),
            objects |-> objects]
      ELSE created(single.objects, FALSE)

redaction_delete_any_document(objects, document, redaction_id) ==
  LET found == {i \in DOMAIN objects : objects[i].id = redaction_id}
  IN  IF found = {}
      THEN [response |-> JsonResponse("Redaction not found", 404), objects |-> objects]
      ELSE [response |-> Notification("success", "Redaction deleted!",
                                      "Redaction was deleted successfully."),
            objects |-> SelectSeq(objects, LAMBDA r : r.id # redaction_id)]

\* The delete without the pk filter: every redaction of the document goes.
redaction_delete_whole_document(objects, document, redaction_id) ==
  LET found == {i \in DOMAIN objects :
                  objects[i].document = document /\ objects[i].id = redaction_id}
  IN  IF found = {}
      THEN [response |-> JsonResponse("Redaction not found", 404), objects |-> objects]
      ELSE [response |-> Notification("success", "Redaction deleted!",
                                      "Redaction was deleted successfully."),
            objects |-> SelectSeq(objects, LAMBDA r : r.document # document)]

\* redaction_delete, for an existing document.
redaction_delete(objects, document, redaction_id) ==
  LET found == {i \in DOMAIN objects :
                  objects[i].document = document /\ objects[i].id = redaction_id}
  IN  IF found = {}
      THEN [response |-> JsonResponse("Redaction not found", 404), objects |-> objects]
      ELSE
      LET redaction == objects[CHOOSE i \in found : TRUE]
          coordinates == redaction.coordinates
          selectors_to_remove ==
            <<[item |-> redaction.id]>> \o
            (IF "boxes" \in DOMAIN coordinates /\ coordinates.boxes # <<>>
             THEN [i \in DOMAIN coordinates.boxes |->
                     [redaction |-> redaction.id, box |-> i - 1]]
             ELSE <<[redaction |-> redaction.id]>>)
          remaining == SelectSeq(objects, LAMBDA r : r.id # redaction_id)
      IN  [response |->
             Notification("success", "Redaction deleted!",
                          "Redaction was deleted successfully.")
               @@ [redactions_count |-> Len(document_redactions(remaining, document)),
                   selectors_to_remove |-> selectors_to_remove],
           objects |-> remaining]

\* The annotations one redaction adds to a page (lines 540-550).
redaction_annotations(annots, coords, page_height) ==
  LET RECURSIVE boxes_annotations(_, _)
      boxes_annotations(acc, boxes) ==
        IF boxes = <<>> THEN acc
        ELSE LET c == extract_pdf_coords(Head(boxes), page_height)
             IN  boxes_annotations(
                   add_pdf_redaction_annotation(acc, c[1], c[2], c[3], c[4]),
                   Tail(boxes))
  IN  IF "boxes" \in DOMAIN coords /\ coords.boxes # <<>>
      THEN boxes_annotations(annots, coords.boxes)
      ELSE LET c == extract_pdf_coords(coords, page_height)
           IN  add_pdf_redaction_annotation(annots, c[1], c[2], c[3], c[4])

\* redactions.filter(coordinates__page = number): the rows whose coordinates
\* hold the key "page" with that number as value.
filter_page(redactions, number) ==
  SelectSeq(redactions, LAMBDA r : /\ "page" \in DOMAIN r.coordinates
                                   /\ r.coordinates.page = JNum(number))

\* The /Annots of output page page_num (0-indexed) of a document.
RECURSIVE page_annotations(_, _, _)
page_annotations(annots, page_redactions, page_height) ==
  IF page_redactions = <<>> THEN annots
  ELSE page_annotations(
         redaction_annotations(annots, Head(page_redactions).coordinates, page_height),
         Tail(page_redactions), page_height)

\* document_download_redacted, for an existing document: the written PDF, one
\* /Annots array for each page of the source, in page order.
document_download_redacted(objects, document) ==
  LET redactions == document_redactions(objects, document)
  IN  [kind |-> "FileResponse", status |-> 200,
       pages |-> [page_num \in 0 .. NumPages(document) - 1 |->
                    page_annotations(<<>>, filter_page(redactions, page_num + 1),
                                     MediaBoxHeight[document][page_num + 1])]]

\* ------------------------------------------------------------- the requests
\* Raw rectangles as a client sends them: numbers, numeric strings, a missing
\* width, a height that is no number.
RectNumbers == [x |-> JNum(100), y |-> JNum(200), width |-> JNum(150), height |-> JNum(20)]
RectStrings == [x |-> JStr("10"), y |-> JStr("30"), width |-> JStr("40"), height |-> JStr("5")]
RectNoWidth == [x |-> JNum(1), y |-> JNum(2), height |-> JNum(4)]
RectBadHeight == [x |-> JNum(1), y |-> JNum(2), width |-> JNum(3), height |-> JStr("abc")]

\* Marks a key the "coordinates" object does not carry.
Absent == [t |-> "absent"]

\* The "coordinates" object with the flat fields of `flat`, and the keys
\* "page" and "selections" unless Absent.
Coordinates(page, flat, selections) ==
  JDict([k \in DOMAIN flat \cup (IF page = Absent THEN {} ELSE {"page"})
                           \cup (IF selections = Absent THEN {} ELSE {"selections"}) |->
           IF k = "page" THEN page
           ELSE IF k = "selections" THEN selections ELSE flat[k]])

SeqsUpTo(S, n) == UNION {[1 .. k -> S] : k \in 0 .. n}

\* Request bodies: one that is no JSON, and for each type the bodies without
\* "coordinates" and with each coordinates object.
Bodies(types, pages, flats, selections) ==
  {[json |-> FALSE, data |-> JNull]} \cup
  {[json |-> TRUE, data |-> [type |-> JStr(ty), coordinates |-> c]] :
     ty \in types,
     c \in {JNull} \cup {Coordinates(p, f, s) : p \in pages, f \in flats, s \in selections}}

Types == {"text", "area", "image"}
\* Page numbers from 0 to the page count of the longest document.
PageNumbers == {JNum(n) : n \in 0 .. NumPages(1)}

\* The bodies of the lifecycle specification.
LifecycleBodies ==
  Bodies(Types, {Absent} \cup PageNumbers, {RectNumbers, RectNoWidth},
         {Absent} \cup {JList(s) : s \in {<<a>> : a \in {RectStrings, RectBadHeight}}
                                      \cup {<<a, b>> : a, b \in {RectStrings, RectBadHeight}}})

\* The bodies of the entity-builder specification.
BuilderBodies ==
  Bodies(Types, {Absent, JNull} \cup PageNumbers,
         {RectNumbers, RectStrings, RectNoWidth, RectBadHeight},
         {Absent} \cup {JList(s) : s \in SeqsUpTo({RectNumbers, RectStrings, RectBadHeight},
                                                  MaxSel)})

\* A document id get_object_or_404 does not find.
MissingDocument == Len(MediaBoxHeight) + 1

NoRequest == [op |-> "none"]
NoResponse == [kind |-> "none"]

\* ------------------------------------------------------------------ actions
Init ==
  /\ store = <<>>
  /\ nextId = 1
  /\ request = NoRequest
  /\ response = NoResponse
  /\ before = <<>>

\* A POST to redaction_create with a body of `bodies`, handled to its response.
CreateRequest(bodies) ==
  /\ request = NoRequest
  /\ nextId <= MaxRedactions
  /\ \E document_id \in Documents, body \in bodies :
       LET out == redaction_create(store, nextId, document_id, body)
       IN  /\ request' = [op |-> "create", document_id |-> document_id, body |-> body]
           /\ response' = out.response
           /\ store' = out.objects
           /\ nextId' = IF Len(out.objects) > Len(store) THEN nextId + 1 ELSE nextId
           /\ before' = store

\* A DELETE to redaction_delete, handled to its response.
DeleteRequest ==
  /\ request = NoRequest
  /\ \E document_id \in Documents, redaction_id \in 1 .. MaxRedactions :
       LET out == redaction_delete(store, document_id, redaction_id)
       IN  /\ request' = [op |-> "delete", document_id |-> document_id,
                          redaction_id |-> redaction_id]
           /\ response' = out.response
           /\ store' = out.objects
           /\ before' = store
           /\ UNCHANGED nextId

\* A GET to document_download_redacted, handled to its response.
DownloadRequest ==
  /\ request = NoRequest
  /\ \E document_id \in Documents :
       /\ request' = [op |-> "download", document_id |-> document_id]
       /\ response' = document_download_redacted(store, document_id)
       /\ before' = store
       /\ UNCHANGED <<store, nextId>>

\* A request of any of the three views for a document that does not exist:
\* get_object_or_404 raises before the view reads anything else.
DocumentNotFound ==
  /\ request = NoRequest
  /\ \E op \in {"create", "delete", "download"} :
       /\ request' = [op |-> op, document_id |-> MissingDocument]
       /\ response' = Http404
       /\ before' = store
       /\ UNCHANGED <<store, nextId>>

\* The response is returned; the server waits for the next request.
ReturnResponse ==
  /\ request # NoRequest
  /\ request' = NoRequest
  /\ response' = NoResponse
  /\ before' = store
  /\ UNCHANGED <<store, nextId>>

Next ==
  \/ CreateRequest(LifecycleBodies)
  \/ DeleteRequest
  \/ DownloadRequest
  \/ DocumentNotFound
  \/ ReturnResponse

\* The lifecycle of the store: any sequence of requests.
Spec == Init /\ [][Next]_vars

\* The store after one area redaction was created on page 1 of document 1.
SeedStore ==
  redaction_create(<<>>, 1, 1,
                   [json |-> TRUE,
                    data |-> [type |-> JStr("area"),
                              coordinates |-> Coordinates(JNum(1), RectNumbers, Absent)]]).objects

InitBuild ==
  /\ store \in {<<>>, SeedStore}
  /\ nextId = Len(store) + 1
  /\ request = NoRequest
  /\ response = NoResponse
  /\ before = store

NextBuild == CreateRequest(BuilderBodies)

\* The entity builder: one create request, drawn from BuilderBodies, against
\* an empty store or the store that holds one redaction.
SpecBuild == InitBuild /\ [][NextBuild]_vars

\* ------------------------------------------------- vocabulary of the claims
\* The request just handled was `op` on an existing document.
Handled(op) == request.op = op /\ request.document_id \in Documents

\* The create request just handled carried a JSON object with a valid type.
CreateHandled ==
  /\ Handled("create")
  /\ request.body.json
  /\ request.body.data.type \in {JStr("text"), JStr("area")}

IsError(r) ==
  \/ r.kind = "JsonResponse"
  \/ r.kind = "DatastarResponse" /\ r.notification_type = "error"

IsSuccess(r) == r.kind = "DatastarResponse" /\ r.notification_type = "success"

\* The rectangles of a stored redaction, whichever way it is stored.
ClaimBoxes(r) ==
  IF "boxes" \in DOMAIN r.coordinates THEN r.coordinates.boxes
  ELSE <<[k \in required_fields |-> r.coordinates[k]]>>

ClaimOnPage(r, number) ==
  "page" \in DOMAIN r.coordinates /\ r.coordinates.page = JNum(number)

\* [x, h - y - height, x + width, h - y]
ClaimRect(b, h) == <<b.x, h - b.y - b.height, b.x + b.width, h - b.y>>

\* The redactions of document d that are on page `number`.
ClaimPageRedactions(d, number) ==
  SelectSeq(before, LAMBDA r : r.document = d /\ ClaimOnPage(r, number))

RECURSIVE ClaimBoxCount(_)
ClaimBoxCount(redactions) ==
  IF redactions = <<>> THEN 0
  ELSE Len(ClaimBoxes(Head(redactions))) + ClaimBoxCount(Tail(redactions))

Range(f) == {f[i] : i \in DOMAIN f}

\* C1: the export adds to output page p one annotation for each box of each
\* redaction whose page is p + 1, with that box's rectangle in PDF space, and
\* nothing else: as many annotations as those redactions have boxes.
C1_AnnotationPerBox ==
  Handled("download") =>
    \A p \in DOMAIN response.pages :
      LET d == request.document_id
          h == MediaBoxHeight[d][p + 1]
          on_page == ClaimPageRedactions(d, p + 1)
          rects == {ClaimRect(b, h) : b \in UNION {Range(ClaimBoxes(r)) : r \in Range(on_page)}}
      IN  /\ Len(response.pages[p]) = ClaimBoxCount(on_page)
          /\ {a.Rect : a \in Range(response.pages[p])} = rects

\* C2: extract_pdf_coords gives (x, h - y - height, width, height) and the
\* annotation rectangle built from it is [x, h - y - height, x + width, h - y],
\* for every box of every redaction the export draws.
C2_PdfSpaceRect ==
  Handled("download") =>
    \A p \in DOMAIN response.pages :
      LET d == request.document_id
          h == MediaBoxHeight[d][p + 1]
      IN  \A r \in Range(ClaimPageRedactions(d, p + 1)) :
            \A b \in Range(ClaimBoxes(r)) :
              /\ extract_pdf_coords(b, h) = <<b.x, h - b.y - b.height, b.width, b.height>>
              /\ \E a \in Range(response.pages[p]) : a.Rect = ClaimRect(b, h)

\* The rectangle {x: 100, y: 200, width: 150, height: 20} on a page of height
\* 792 was exported as [100, 572, 250, 592].
C2_Witness ==
  /\ Handled("download")
  /\ \E r \in Range(ClaimPageRedactions(request.document_id, 1)) :
       ClaimBoxes(r) = <<[x |-> 100, y |-> 200, width |-> 150, height |-> 20]>>
  /\ MediaBoxHeight[request.document_id][1] = 792
  /\ \E a \in Range(response.pages[0]) : a.Rect = <<100, 572, 250, 592>>

\* ----------------------------------------------------- claims on creation
ReqData == request.body.data
ReqType == ReqData.type.v
ReqCoordinates == ReqData.coordinates

\* The "selections" list the request carries, <<>> when it carries none.
ReqSelections ==
  IF ReqCoordinates.t = "dict" /\ Get(ReqCoordinates.v, "selections").t = "list"
  THEN ReqCoordinates.v.selections.v ELSE <<>>

\* The flat x, y, width, height fields of the coordinates object.
ReqFlat == [k \in DOMAIN ReqCoordinates.v \cap required_fields |-> ReqCoordinates.v[k]]

\* The fields of a raw rectangle that are missing or do not parse to a float.
ClaimBadFields(rect) == {k \in required_fields : ~float(Get(rect, k)).ok}
ClaimValid(rect) == ClaimBadFields(rect) = {}
ClaimFloats(rect) == [k \in required_fields |-> float(rect[k]).v]

\* The rectangles that pass validation, converted, in the order supplied.
ClaimValidBoxes(rects) ==
  LET valid == SelectSeq(rects, ClaimValid)
  IN  [i \in DOMAIN valid |-> ClaimFloats(valid[i])]

\* Exactly one redaction was stored by the request, after those there were.
StoredOne == Len(store) = Len(before) + 1 /\ SubSeq(store, 1, Len(before)) = before
Stored == store[Len(store)]

\* The request supplies more than one raw rectangle, more than one of them valid.
ManyValid ==
  /\ ReqCoordinates.t = "dict"
  /\ Len(ReqSelections) > 1
  /\ Len(ClaimValidBoxes(ReqSelections)) > 1

\* C3 as stated: for every valid type, a request with more than one raw
\* rectangle, more than one of them valid, stores exactly one redaction whose
\* boxes are the valid rectangles in the order supplied, and is no error.
C3_AnyType_ValidBoxesStored ==
  (CreateHandled /\ ManyValid) =>
    /\ IsSuccess(response)
    /\ StoredOne
    /\ "boxes" \in DOMAIN Stored.coordinates
    /\ Stored.coordinates.boxes = ClaimValidBoxes(ReqSelections)

\* C3 (amended): a request of type "text" with more than one raw rectangle in
\* "selections", more than one of them valid, stores exactly one redaction
\* whose boxes are the valid rectangles in the order supplied; the rectangles
\* that fail validation are dropped and the request is no error.
C3_Text_ValidBoxesStored ==
  (CreateHandled /\ ReqType = "text" /\ ManyValid) =>
    /\ IsSuccess(response)
    /\ StoredOne
    /\ "boxes" \in DOMAIN Stored.coordinates
    /\ Stored.coordinates.boxes = ClaimValidBoxes(ReqSelections)

\* Three rectangles of which the second has a non-numeric height were sent as
\* a text redaction: one redaction with the first and the third was stored.
C3_Witness ==
  /\ CreateHandled /\ ReqType = "text"
  /\ ReqSelections = <<RectNumbers, RectBadHeight, RectStrings>>
  /\ IsSuccess(response)
  /\ StoredOne
  /\ Stored.coordinates.boxes =
       <<[x |-> 100, y |-> 200, width |-> 150, height |-> 20],
         [x |-> 10, y |-> 30, width |-> 40, height |-> 5]>>

\* The raw rectangles a request supplies: its selections, its flat
\* coordinates when it has none.
ClaimSupplied == IF ReqSelections # <<>> THEN ReqSelections ELSE <<ReqFlat>>

\* The response is the validation error that names `key`.
NamesField(r, key) == r.kind = "JsonResponse" /\ r.status = 400 /\ r.error.key = key

\* C4 as stated: a request that supplies exactly one raw rectangle of which a
\* field is missing or does not parse fails with a validation error that
\* names an offending field, and stores nothing.
C4_OneRect_FieldError ==
  (/\ CreateHandled /\ ReqCoordinates.t = "dict"
   /\ Len(ClaimSupplied) = 1 /\ ~ClaimValid(ClaimSupplied[1])) =>
    /\ store = before
    /\ \E k \in ClaimBadFields(ClaimSupplied[1]) : NamesField(response, k)

\* The request is handled as one rectangle: not a text request with more than
\* one selection.
SinglePath == ~(ReqType = "text" /\ Len(ReqSelections) > 1)
\* The rectangle it is handled as: the only selection of a text request, the
\* flat coordinates otherwise.
FromSelection == ReqType = "text" /\ Len(ReqSelections) = 1
SingleRect == IF FromSelection THEN ReqSelections[1] ELSE ReqFlat

FirstBadField(rect) ==
  CoordKeys[CHOOSE i \in DOMAIN CoordKeys :
              /\ CoordKeys[i] \in ClaimBadFields(rect)
              /\ \A j \in 1 .. i - 1 : CoordKeys[j] \notin ClaimBadFields(rect)]

IsMissingPage(r) ==
  /\ r.kind = "DatastarResponse" /\ r.notification_type = "error"
  /\ r.message = "Missing page field in coordinates."

\* C4 (amended): when a request of type "text" or "area" is handled as one
\* rectangle (the only selection of a text request, else the flat
\* coordinates) and a field of that rectangle is missing or does not parse,
\* nothing is stored and the request fails with a validation error: the one
\* that names the first such field in the order x, y, width, height, or, when
\* the flat coordinates carry no "page" key, the missing-page error.
C4_SingleRect_FieldError ==
  (/\ CreateHandled /\ ReqCoordinates.t = "dict"
   /\ SinglePath /\ ~ClaimValid(SingleRect)) =>
    /\ store = before
    /\ IF ~FromSelection /\ "page" \notin DOMAIN ReqCoordinates.v
       THEN IsMissingPage(response)
       ELSE NamesField(response, FirstBadField(SingleRect))

\* An area redaction on page 1 whose one rectangle lacks its width was
\* refused with the error that names "width", and nothing was stored.
C4_Witness ==
  /\ CreateHandled /\ ReqType = "area" /\ ReqCoordinates.t = "dict"
  /\ Get(ReqCoordinates.v, "page") = JNum(1)
  /\ ReqFlat = RectNoWidth
  /\ NamesField(response, "width")
  /\ store = before /\ before # <<>>

\* C5: a create request whose coordinates carry no page value is rejected
\* with the missing-page error and stores nothing, whether it carries flat
\* coordinates, one selection or several.  Stated for the requests whose
\* rectangles are all valid, which no other validation error can answer.
C5_NoPage_Rejected ==
  (/\ CreateHandled /\ ReqCoordinates.t = "dict"
   /\ Get(ReqCoordinates.v, "page") = JNull
   /\ \A i \in DOMAIN ClaimSupplied : ClaimValid(ClaimSupplied[i])) =>
    /\ IsMissingPage(response)
    /\ store = before

\* C6: every stored redaction has at least one box.
C6_BoxesNonEmpty == \A r \in Range(store) : ClaimBoxes(r) # <<>>

\* C7: every stored redaction has an integer page between 1 and the page
\* count of its document.  Stated for the redactions stored with a page
\* number, the ones C5 does not already speak of.
C7_PageInDocument ==
  \A r \in Range(store) :
    ("page" \in DOMAIN r.coordinates /\ r.coordinates.page.t = "num") =>
      r.coordinates.page.v \in 1 .. NumPages(r.document)

\* C8: a create request answered with an error leaves the stored redactions
\* as they were.
C8_ErrorStoresNothing ==
  (Handled("create") /\ IsError(response)) => store = before

\* ----------------------------------------------------- claims on deletion
\* The redaction the delete request names exists in the document it addresses.
DeleteTargetExists ==
  \E r \in Range(before) :
    r.id = request.redaction_id /\ r.document = request.document_id

IsNotFound(r) == r.kind = "JsonResponse" /\ r.status = 404 /\ r.error = "Redaction not found"

\* C9: deleting a redaction id the addressed document does not hold is
\* answered "not found" (404), which is neither the deleted result nor a
\* validation error (400), and changes no stored redaction; only a delete that
\* finds its redaction is answered "deleted".
C9_DeleteNotFound ==
  Handled("delete") =>
    IF DeleteTargetExists
    THEN IsSuccess(response) /\ ~IsNotFound(response)
    ELSE IsNotFound(response) /\ ~IsSuccess(response) /\ response.status # 400
         /\ store = before

\* A redaction of another document was the target of a delete, next to a
\* redaction of the addressed document: "not found", and both stayed.
C9_Witness ==
  /\ Handled("delete") /\ IsNotFound(response) /\ store = before
  /\ \E r \in Range(before) :
       r.id = request.redaction_id /\ r.document # request.document_id
  /\ \E r \in Range(before) : r.document = request.document_id

\* ------------------------------------------------ claims on the stored shape
\* C10 as stated: every stored redaction is {page, boxes: [...]}.
C10_AlwaysBoxes ==
  \A r \in Range(store) : DOMAIN r.coordinates = {"page", "boxes"}

\* C10 (amended): a stored redaction has one of two shapes.  One created from
\* more than one selection of a text request is {page, boxes: [...]}; one
\* created as a single rectangle stores the flat x, y, width, height fields,
\* with the page when the request gave one, and no boxes sequence.
C10_TwoShapes ==
  /\ \A r \in Range(store) :
       \/ DOMAIN r.coordinates = {"page", "boxes"} /\ r.redaction_type = "text"
       \/ DOMAIN r.coordinates \in {required_fields, required_fields \cup {"page"}}
  /\ (CreateHandled /\ StoredOne) =>
       IF SinglePath
       THEN /\ DOMAIN Stored.coordinates \ {"page"} = required_fields
            /\ [k \in required_fields |-> Stored.coordinates[k]] = ClaimFloats(SingleRect)
       ELSE DOMAIN Stored.coordinates = {"page", "boxes"}

\* A single rectangle was created and is stored flat.
C10_Witness ==
  /\ CreateHandled /\ StoredOne /\ SinglePath /\ IsSuccess(response)
  /\ DOMAIN Stored.coordinates = required_fields \cup {"page"}

\* ------------------------------------------------------- claims on the frame
\* C11: in every step, a stored redaction either stays in the store with the
\* same type, page and boxes, or is the one redaction a successful delete
\* request names, which then leaves the store whole (no row of its id
\* remains) while every other redaction stays; a create only adds one new
\* redaction, and the export changes nothing.
C11_RedactionsImmutable ==
  [][/\ \A r \in Range(store) :
          \/ r \in Range(store')
          \/ /\ request'.op = "delete"
             /\ request'.document_id = r.document
             /\ request'.redaction_id = r.id
             /\ IsSuccess(response')
             /\ \A r2 \in Range(store') : r2.id # r.id
             /\ Len(store') = Len(store) - 1
     /\ \A r2 \in Range(store') :
          \/ r2 \in Range(store)
          \/ /\ request'.op = "create"
             /\ \A r \in Range(store) : r.id # r2.id
             /\ Len(store') = Len(store) + 1
     /\ \A i, j \in DOMAIN store' : store'[i].id = store'[j].id => i = j
     /\ request'.op = "download" => store' = store
    ]_vars

\* A redaction of two boxes was deleted in one step, and another redaction,
\* created after it, is still stored as it was.
C11_Witness ==
  /\ Handled("delete") /\ IsSuccess(response)
  /\ \E r \in Range(before) :
       /\ r.id = request.redaction_id
       /\ Len(ClaimBoxes(r)) > 1
       /\ r \notin Range(store)
  /\ store # <<>>
  /\ \A r \in Range(store) : r \in Range(before) /\ r.id > request.redaction_id

====
